---- MODULE Spec2Model ----
(***************************************************************************)
(* Model of the conversational task scheduler of src/app/page.tsx: the     *)
(* dialog engine (routeInput and the Add / Update / Delete / View flow     *)
(* handlers), the task list it mutates and the persisted copy of it.       *)
(*                                                                         *)
(* Text is modelled as a sequence of one-character strings, so that trim,  *)
(* toLowerCase, startsWith, includes and the index regex are computed the  *)
(* way the code computes them.  One step of the model is one user turn:    *)
(* handleSend run to completion, the batched React state updates applied,  *)
(* and the effect that persists the task list flushed.  The start of a     *)
(* session takes two steps: the effects of the first render (load, then    *)
(* persist), and the render of the loaded list with its persist effect.    *)
(* The page can be reloaded between any two steps.                         *)
(***************************************************************************)
EXTENDS Integers, Sequences, FiniteSets, TLC

VARIABLES
    messages,        \* the Message records appended to the log by the latest turn
    tasks,           \* useState<Task[]>: the Task Store
    action,          \* 'idle' | 'add' | 'update' | 'delete' | 'view'
    flowStep,        \* step counter of the active flow
    pendingTask,     \* Partial<Task>: the draft (Add) or the delta (Update)
    selectedTaskId,  \* id of the selected task, or NoId
    pendingField,    \* field chosen in the Update flow, or NoField
    buttons,         \* quick actions currently offered
    storage,         \* the localStorage slot 'whatsapp-task-scheduler'
    lifecycle        \* where the page is in its start-up, and the queued load

vars == <<messages, tasks, action, flowStep, pendingTask, selectedTaskId,
          pendingField, buttons, storage, lifecycle>>

----------------------------------------------------------------------------
(* Bounds of the model. *)

\* The Add flow is not started once the store holds this many tasks.
MaxTasks == 2

----------------------------------------------------------------------------
(* Text. *)

UpperAlphabet == <<"A","B","C","D","E","F","G","H","I","J","K","L","M",
                   "N","O","P","Q","R","S","T","U","V","W","X","Y","Z">>
LowerAlphabet == <<"a","b","c","d","e","f","g","h","i","j","k","l","m",
                   "n","o","p","q","r","s","t","u","v","w","x","y","z">>
Digits == <<"0","1","2","3","4","5","6","7","8","9">>

\* JavaScript null, for a text-valued field (no text is this sequence: its
\* element is not a single character).
null == <<"null">>

\* Character.toLowerCase
ToLowerChar(c) ==
    IF \E k \in 1..26 : UpperAlphabet[k] = c
    THEN LowerAlphabet[CHOOSE k \in 1..26 : UpperAlphabet[k] = c]
    ELSE c

\* String.prototype.toLowerCase
toLowerCase(s) == [k \in 1..Len(s) |-> ToLowerChar(s[k])]

IsSpace(c) == c = " "

\* String.prototype.trim
RECURSIVE TrimStart(_)
TrimStart(s) ==
    IF s # <<>> /\ IsSpace(Head(s)) THEN TrimStart(Tail(s)) ELSE s

RECURSIVE TrimEnd(_)
TrimEnd(s) ==
    IF s # <<>> /\ IsSpace(s[Len(s)]) THEN TrimEnd(SubSeq(s, 1, Len(s) - 1)) ELSE s

trim(s) == TrimEnd(TrimStart(s))

\* String.prototype.startsWith
startsWith(s, prefix) ==
    /\ Len(prefix) <= Len(s)
    /\ SubSeq(s, 1, Len(prefix)) = prefix

\* String.prototype.includes
includes(s, sub) ==
    \E k \in 1..(Len(s) - Len(sub) + 1) : SubSeq(s, k, k + Len(sub) - 1) = sub

IsDigit(c) == \E k \in 1..10 : Digits[k] = c

DigitValue(c) == (CHOOSE k \in 1..10 : Digits[k] = c) - 1

\* The longest run of digits at the head of s: the group (\d+) of the regex.
RECURSIVE LeadingDigits(_)
LeadingDigits(s) ==
    IF s # <<>> /\ IsDigit(Head(s))
    THEN <<Head(s)>> \o LeadingDigits(Tail(s))
    ELSE <<>>

\* Number.parseInt(digits, 10) on a non-empty run of digits
RECURSIVE ParseInt(_)
ParseInt(ds) ==
    IF ds = <<>> THEN 0
    ELSE 10 * ParseInt(SubSeq(ds, 1, Len(ds) - 1)) + DigitValue(ds[Len(ds)])

\* A parse that forgets the `- 1`: the number itself as the position.
parseIndex_zeroBased(value) ==
    LET t      == trim(value)
        rest   == IF t # <<>> /\ Head(t) = "#" THEN Tail(t) ELSE t
        digits == LeadingDigits(rest)
    IN  IF digits = <<>> THEN <<>> ELSE <<ParseInt(digits)>>

\* parseIndex: value.trim().match(/^(?:#)?(\d+)/); <<>> stands for null,
\* <<n>> for the number n.
parseIndex(value) ==
    LET t      == trim(value)
        rest   == IF t # <<>> /\ Head(t) = "#" THEN Tail(t) ELSE t
        digits == LeadingDigits(rest)
    IN  IF digits = <<>> THEN <<>> ELSE <<ParseInt(digits) - 1>>

----------------------------------------------------------------------------
(* Literals of the program. *)

kwAdd == <<"a","d","d">>
kwUpdate == <<"u","p","d","a","t","e">>
kwDelete == <<"d","e","l","e","t","e">>
kwRemove == <<"r","e","m","o","v","e">>
kwView == <<"v","i","e","w">>
kwShow == <<"s","h","o","w">>
kwList == <<"l","i","s","t">>
chY == <<"y">>
chN == <<"n">>
High == <<"H","i","g","h">>
Medium == <<"M","e","d","i","u","m">>
Low == <<"L","o","w">>
wTitle == <<"t","i","t","l","e">>
wDue == <<"d","u","e">>
wPriority == <<"p","r","i","o","r","i","t","y">>
wReminder == <<"r","e","m","i","n","d","e","r">>
wYes == <<"y","e","s">>
wNo == <<"n","o">>
vAddTask == <<"A","d","d"," ","T","a","s","k">>
vUpdateTask == <<"U","p","d","a","t","e"," ","T","a","s","k">>
vDeleteTask == <<"D","e","l","e","t","e"," ","T","a","s","k">>
vViewTasks == <<"V","i","e","w"," ","T","a","s","k","s">>
UntitledTask == <<"U","n","t","i","t","l","e","d"," ","t","a","s","k">>
NoDueDate == <<"N","o"," ","d","u","e"," ","d","a","t","e">>
None == <<"N","o","n","e">>

\* const priorityOptions: Priority[] = ['High', 'Medium', 'Low']
priorityOptions == <<High, Medium, Low>>

\* const idleActions: QuickAction[]
idleActions ==
    << [label |-> "Add Task",    value |-> vAddTask],
       [label |-> "Update Task", value |-> vUpdateTask],
       [label |-> "Delete Task", value |-> vDeleteTask],
       [label |-> "View Tasks",  value |-> vViewTasks] >>

\* The keys of Task a user may change, and the words that name them.
fieldKeys == <<"title", "due", "priority", "reminder">>
fieldWords == <<wTitle, wDue, wPriority, wReminder>>

\* selectedTaskId === null, pendingField === null
NoId == 0
NoField == "null"

\* { priority: 'Medium' }
defaultPendingTask == [priority |-> Medium]

\* A lookup that falls back to Medium when no option matches.
findPriority_defaultsToMedium(userInput) ==
    LET wanted == toLowerCase(trim(userInput))
        hits   == {k \in 1..3 : toLowerCase(<<High, Medium, Low>>[k]) = wanted}
    IN  IF hits = {} THEN Medium
        ELSE <<High, Medium, Low>>[CHOOSE k \in hits : \A j \in hits : k <= j]

\* priorityOptions.find(p => p.toLowerCase() === userInput.trim().toLowerCase());
\* <<>> stands for undefined.
findPriority(userInput) ==
    LET wanted == toLowerCase(trim(userInput))
        hits   == {k \in 1..Len(priorityOptions) : toLowerCase(priorityOptions[k]) = wanted}
    IN  IF hits = {} THEN <<>>
        ELSE priorityOptions[CHOOSE k \in hits : \A j \in hits : k <= j]

\* userInput.trim().toLowerCase().startsWith('y')
saysYes(userInput) == startsWith(toLowerCase(trim(userInput)), chY)

\* A test that takes every answer for a no.
saysNo_anything(userInput) == TRUE

\* userInput.trim().toLowerCase().startsWith('n')
saysNo(userInput) == startsWith(toLowerCase(trim(userInput)), chN)

\* x ?? fallback, for a key of a Partial<Task>
Coalesce(partial, key, fallback) ==
    IF key \in DOMAIN partial /\ partial[key] # null THEN partial[key] ELSE fallback

\* { ...base, ...over }
Spread(base, over) == over @@ base

\* crypto.randomUUID(): an identifier no task of the list carries.  Identifiers
\* are opaque to the program, so the least unused number stands for it.
randomUUID(list) ==
    CHOOSE id \in 1..(Len(list) + 1) :
        /\ \A k \in 1..Len(list) : list[k].id # id
        /\ \A other \in 1..(Len(list) + 1) :
              (\A k \in 1..Len(list) : list[k].id # other) => id <= other

\* The content of the localStorage slot.  A text is modelled by the JSON
\* document it spells: type is "array" for '[...]' (items are the members of
\* its objects, in the order they are written), "object" for a document that
\* is no array, "unparsable" for a text that is no JSON, "empty" for '' and
\* "absent" when getItem returns null.
taskKeys == <<"id", "title", "due", "priority", "reminder">>

\* A string or null as JSON writes it.
jsonToken(key, v) ==
    IF key = "id" THEN [type |-> "string", chars |-> <<v>>]
    ELSE IF v = null THEN [type |-> "null", chars |-> <<>>]
    ELSE [type |-> "string", chars |-> v]

\* The value a JSON token reads back as.
jsonValue(key, token) ==
    IF key = "id" THEN token.chars[1]
    ELSE IF token.type = "null" THEN null
    ELSE token.chars

\* JSON.stringify(tasks): the members of each task in the order of its keys.
JSONstringify(list) ==
    [type |-> "array",
     items |-> [k \in 1..Len(list) |->
                  [i \in 1..Len(taskKeys) |->
                     <<taskKeys[i], jsonToken(taskKeys[i], list[k][taskKeys[i]])>>]]]

\* The object a sequence of members reads back as.
jsonObject(members) ==
    [key \in {members[i][1] : i \in 1..Len(members)} |->
        LET i == CHOOSE j \in 1..Len(members) :
                     /\ members[j][1] = key
                     /\ \A l \in (j + 1)..Len(members) : members[l][1] # key
        IN  jsonValue(key, members[i][2])]

\* JSON.parse(stored) of a text that parses: the value, and whether it is an
\* array (Array.isArray).
JSONparse(stored) ==
    [isArray |-> stored.type = "array",
     elements |-> [k \in 1..Len(stored.items) |-> jsonObject(stored.items[k])]]

\* JSON.parse throws on this text.
throwsSyntaxError(stored) == stored.type = "unparsable"

\* if (stored): null and '' are falsy.
truthy(stored) == stored.type \notin {"absent", "empty"}

\* The slot before anything was ever stored.
absentSlot == [type |-> "absent", items |-> <<>>]

----------------------------------------------------------------------------
(* Session state.  A handler runs against the state of the render it closes *)
(* over (cur) and queues updates; q is the state those updates produce.     *)

\* The state the current render closes over.
Current ==
    [messages |-> messages, tasks |-> tasks, action |-> action,
     flowStep |-> flowStep, pendingTask |-> pendingTask,
     selectedTaskId |-> selectedTaskId, pendingField |-> pendingField,
     buttons |-> buttons, storage |-> storage, tasksSet |-> FALSE]

\* pushMessage(role, content): content is a fixed text with interpolated values.
pushMessage(q, role, text, args) ==
    [q EXCEPT !.messages = Append(@, [role |-> role, text |-> text, args |-> args])]

setTasks(q, list) == [q EXCEPT !.tasks = list, !.tasksSet = TRUE]

\* A reset that leaves the selection in place.
resetConversation_keepsSelection(q) ==
    [q EXCEPT !.action = "idle",
              !.flowStep = 0,
              !.pendingTask = defaultPendingTask,
              !.pendingField = NoField,
              !.buttons = idleActions]

\* A reset that leaves the draft in place.
resetConversation_keepsDraft(q) ==
    [q EXCEPT !.action = "idle",
              !.flowStep = 0,
              !.selectedTaskId = NoId,
              !.pendingField = NoField,
              !.buttons = idleActions]

resetConversation(q) ==
    [q EXCEPT !.action = "idle",
              !.flowStep = 0,
              !.pendingTask = defaultPendingTask,
              !.selectedTaskId = NoId,
              !.pendingField = NoField,
              !.buttons = idleActions]

\* Idle options that are announced without the reset.
showIdleOptions_withoutReset(q) ==
    pushMessage(q, "assistant",
                "Anything else I can help with? Add, update, delete, or view tasks.", <<>>)

showIdleOptions(q) ==
    resetConversation(
        pushMessage(q, "assistant",
                    "Anything else I can help with? Add, update, delete, or view tasks.", <<>>))

\* The four lines `Task: .. Due: .. Priority: .. Reminder: ..` of a summary.
summaryParts(task) ==
    <<task.title, task.due, task.priority,
      IF task.reminder = null THEN None ELSE task.reminder>>

saveButtons ==
    << [label |-> "Yes, save",  value |-> wYes],
       [label |-> "No, cancel", value |-> wNo] >>

priorityButtons ==
    [k \in 1..Len(priorityOptions) |->
        [label |-> <<"High", "Medium", "Low">>[k], value |-> priorityOptions[k]]]

----------------------------------------------------------------------------
(* The Add flow. *)

\* A save step that forgets the priority of the draft.
newTask_defaultPriority(cur) ==
    [id       |-> randomUUID(cur.tasks),
     title    |-> trim(cur.pendingTask["title"]),
     due      |-> trim(cur.pendingTask["due"]),
     priority |-> Medium,
     reminder |-> Coalesce(cur.pendingTask, "reminder", null)]

\* The Task built at the save step from the draft.
newTask(cur) ==
    [id       |-> randomUUID(cur.tasks),
     title    |-> IF "title" \in DOMAIN cur.pendingTask /\ cur.pendingTask["title"] # null
                  THEN trim(cur.pendingTask["title"]) ELSE UntitledTask,
     due      |-> IF "due" \in DOMAIN cur.pendingTask /\ cur.pendingTask["due"] # null
                  THEN trim(cur.pendingTask["due"]) ELSE NoDueDate,
     priority |-> Coalesce(cur.pendingTask, "priority", Medium),
     reminder |-> Coalesce(cur.pendingTask, "reminder", null)]

handleAddFlow(cur, q, userInput) ==
    CASE cur.flowStep = 0 ->
           [pushMessage(q, "assistant", "Great! What is the task?", <<>>)
              EXCEPT !.pendingTask = defaultPendingTask,
                     !.flowStep = 1,
                     !.buttons = <<>>]
      [] cur.flowStep = 1 ->
           [pushMessage(q, "assistant", "Got it. When is it due? (e.g. \"24 Apr 5pm\")", <<>>)
              EXCEPT !.pendingTask = Spread(@, [title |-> trim(userInput)]),
                     !.flowStep = 2]
      [] cur.flowStep = 2 ->
           [pushMessage(q, "assistant", "Any priority? High, Medium, or Low?", <<>>)
              EXCEPT !.pendingTask = Spread(@, [due |-> trim(userInput)]),
                     !.buttons = priorityButtons,
                     !.flowStep = 3]
      [] cur.flowStep = 3 ->
           LET priority == findPriority(userInput)
           IN  IF priority = <<>>
               THEN pushMessage(q, "assistant", "Please choose between High, Medium, or Low.", <<>>)
               ELSE [pushMessage(q, "assistant", "Do you want to add a reminder?", <<>>)
                       EXCEPT !.pendingTask = Spread(@, [priority |-> priority]),
                              !.buttons = << [label |-> "Yes, add reminder", value |-> wYes],
                                             [label |-> "No reminder", value |-> wNo] >>,
                              !.flowStep = 4]
      [] cur.flowStep = 4 ->
           IF saysYes(userInput)
           THEN [pushMessage(q, "assistant", "Sure, when should I remind you?", <<>>)
                   EXCEPT !.flowStep = 5,
                          !.buttons = <<>>]
           ELSE IF saysNo(userInput)
           THEN [pushMessage(q, "assistant", "Here is what I captured. Save it? (yes/no)", <<>>)
                   EXCEPT !.pendingTask = Spread(@, [reminder |-> null]),
                          !.flowStep = 6,
                          !.buttons = saveButtons]
           ELSE pushMessage(q, "assistant", "Please say yes or no for the reminder.", <<>>)
      [] cur.flowStep = 5 ->
           [pushMessage(q, "assistant", "Thanks! Shall I save it? (yes/no)", <<>>)
              EXCEPT !.pendingTask = Spread(@, [reminder |-> trim(userInput)]),
                     !.flowStep = 6,
                     !.buttons = saveButtons]
      [] cur.flowStep = 6 ->
           IF saysYes(userInput)
           THEN LET task    == newTask(cur)
                    updated == Append(cur.tasks, task)
                IN  showIdleOptions(
                        pushMessage(setTasks(q, updated), "assistant",
                                    "All set!\nTask: %1\nDue: %2\nPriority: %3\nReminder: %4",
                                    summaryParts(task)))
           ELSE showIdleOptions(
                    pushMessage(q, "assistant", "No worries, I will discard that task.", <<>>))
      [] OTHER -> q

----------------------------------------------------------------------------
(* The Update flow. *)

\* tasks.map((task, index) => `#${index + 1} ${task.title} - Due: ${task.due}
\* - Priority: ${task.priority}`): the interpolated values, row after row.
RECURSIVE listRows(_)
listRows(list) ==
    IF list = <<>> THEN <<>>
    ELSE <<Head(list).title, Head(list).due, Head(list).priority>> \o listRows(Tail(list))

\* A search that starts at the second task.
findTask_skipsFirst(list, id) ==
    LET hits == {k \in 2..Len(list) : list[k].id = id}
    IN  IF hits = {} THEN <<>>
        ELSE <<list[CHOOSE k \in hits : \A j \in hits : k <= j]>>

\* tasks.find(task => task.id === id); <<>> stands for undefined, <<t>> for t.
findTask(list, id) ==
    LET hits == {k \in 1..Len(list) : list[k].id = id}
    IN  IF hits = {} THEN <<>>
        ELSE <<list[CHOOSE k \in hits : \A j \in hits : k <= j]>>

\* index === null || index < 0 || index >= tasks.length
invalidIndex(index, list) ==
    \/ index = <<>>
    \/ index[1] < 0
    \/ index[1] >= Len(list)

\* Field buttons that send their label.
changeButtons_sendLabels ==
    << [label |-> "Task name",       value |-> <<"T","a","s","k"," ","n","a","m","e">>],
       [label |-> "Due date & time", value |-> wDue],
       [label |-> "Priority",        value |-> wPriority],
       [label |-> "Reminder",        value |-> wReminder] >>

changeButtons ==
    << [label |-> "Task name",       value |-> wTitle],
       [label |-> "Due date & time", value |-> wDue],
       [label |-> "Priority",        value |-> wPriority],
       [label |-> "Reminder",        value |-> wReminder] >>

\* A preview that already writes the merged task to the store.
previewUpdate_writesStore(q, currentTask, updateDraft, text) ==
    [pushMessage(setTasks(q, [k \in 1..Len(q.tasks) |->
                                 IF q.tasks[k].id = currentTask.id
                                 THEN Spread(currentTask, updateDraft)
                                 ELSE q.tasks[k]]),
                 "assistant", text, summaryParts(Spread(currentTask, updateDraft)))
       EXCEPT !.pendingTask = updateDraft,
              !.buttons = saveButtons,
              !.flowStep = 5]

\* A preview that adds the delta to the fields the pending task already has.
previewUpdate_keepsOldDraft(q, currentTask, updateDraft, text) ==
    [pushMessage(q, "assistant", text, summaryParts(Spread(currentTask, updateDraft)))
       EXCEPT !.pendingTask = Spread(q.pendingTask, updateDraft),
              !.buttons = saveButtons,
              !.flowStep = 5]

\* The preview of step 3 and step 4: the delta is stored as the pending task
\* and shown merged over the selected task.
previewUpdate(q, currentTask, updateDraft, text) ==
    [pushMessage(q, "assistant", text, summaryParts(Spread(currentTask, updateDraft)))
       EXCEPT !.pendingTask = updateDraft,
              !.buttons = saveButtons,
              !.flowStep = 5]

\* A merge that does not compare ids.
mergeSelected_everyTask(prev, id, delta) ==
    [k \in 1..Len(prev) |-> Spread(prev[k], delta)]

\* prev.map(task => task.id === selectedTaskId ? { ...task, ...pendingTask } : task)
mergeSelected(prev, id, delta) ==
    [k \in 1..Len(prev) |-> IF prev[k].id = id THEN Spread(prev[k], delta) ELSE prev[k]]

handleUpdateFlow(cur, q, userInput) ==
    CASE cur.flowStep = 0 ->
           IF Len(cur.tasks) = 0
           THEN resetConversation(
                    pushMessage(q, "assistant", "You have no tasks yet. Let's add one.", <<>>))
           ELSE [pushMessage(q, "assistant", "Which task do you want to update?\n%list",
                             listRows(cur.tasks))
                   EXCEPT !.flowStep = 1]
      [] cur.flowStep = 1 ->
           LET index == parseIndex(userInput)
           IN  IF invalidIndex(index, cur.tasks)
               THEN pushMessage(q, "assistant", "Please pick a valid task number.", <<>>)
               ELSE [pushMessage(q, "assistant", "What do you want to change?", <<>>)
                       EXCEPT !.selectedTaskId = cur.tasks[index[1] + 1].id,
                              !.buttons = changeButtons,
                              !.flowStep = 2]
      [] cur.flowStep = 2 ->
           LET field == toLowerCase(trim(userInput))
               hits  == {k \in 1..Len(fieldWords) : fieldWords[k] = field}
           IN  IF hits = {}
               THEN pushMessage(q, "assistant",
                                "Please choose title, due, priority, or reminder.", <<>>)
               ELSE LET key == fieldKeys[CHOOSE k \in hits : TRUE]
                    IN  [(IF key = "priority"
                          THEN [pushMessage(q, "assistant", "New priority? (High/Medium/Low)", <<>>)
                                  EXCEPT !.buttons = priorityButtons]
                          ELSE IF key = "reminder"
                          THEN [pushMessage(q, "assistant",
                                            "Want to update the reminder or remove it?", <<>>)
                                  EXCEPT !.buttons =
                                      << [label |-> "Update reminder", value |-> kwUpdate],
                                         [label |-> "Remove reminder", value |-> kwRemove] >>]
                          ELSE [pushMessage(q, "assistant", "Alright, what is the new %1?",
                                            <<IF key = "title"
                                              THEN <<"t","a","s","k"," ","n","a","m","e">>
                                              ELSE <<"d","u","e"," ","d","a","t","e"," ","&",
                                                     " ","t","i","m","e">>>>)
                                  EXCEPT !.buttons = <<>>])
                           EXCEPT !.pendingField = key,
                                  !.flowStep = 3]
      [] cur.flowStep = 3 ->
           IF cur.selectedTaskId = NoId
           THEN resetConversation(pushMessage(q, "assistant", "Let's start over.", <<>>))
           ELSE LET found == findTask(cur.tasks, cur.selectedTaskId)
                IN  IF found = <<>>
                    THEN resetConversation(
                             pushMessage(q, "assistant",
                                         "I could not find that task. Let's try again.", <<>>))
                    ELSE LET text == "Here is the updated version:\n%summary\nSave it? (yes/no)"
                             option == toLowerCase(trim(userInput))
                         IN  CASE cur.pendingField = "priority" ->
                                    IF findPriority(userInput) = <<>>
                                    THEN pushMessage(q, "assistant",
                                                     "Priority should be High, Medium, or Low.", <<>>)
                                    ELSE previewUpdate(q, found[1],
                                                       [priority |-> findPriority(userInput)], text)
                               [] cur.pendingField = "reminder" ->
                                    IF option = kwRemove
                                    THEN previewUpdate(q, found[1], [reminder |-> null], text)
                                    ELSE IF option = kwUpdate
                                    THEN [pushMessage(q, "assistant",
                                                      "What is the new reminder time?", <<>>)
                                            EXCEPT !.flowStep = 4,
                                                   !.buttons = <<>>]
                                    ELSE previewUpdate(q, found[1],
                                                       [reminder |-> trim(userInput)], text)
                               [] cur.pendingField = "title" ->
                                    previewUpdate(q, found[1], [title |-> trim(userInput)], text)
                               [] cur.pendingField = "due" ->
                                    previewUpdate(q, found[1], [due |-> trim(userInput)], text)
                               [] OTHER ->
                                    previewUpdate(q, found[1], <<>>, text)
      [] cur.flowStep = 4 ->
           IF cur.selectedTaskId = NoId
           THEN resetConversation(pushMessage(q, "assistant", "Let's start over.", <<>>))
           ELSE LET found == findTask(cur.tasks, cur.selectedTaskId)
                IN  IF found = <<>>
                    THEN resetConversation(
                             pushMessage(q, "assistant", "Task not found, sorry.", <<>>))
                    ELSE previewUpdate(q, found[1], [reminder |-> trim(userInput)],
                                       "Updated reminder ready:\n%summary\nSave it? (yes/no)")
      [] cur.flowStep = 5 ->
           IF cur.selectedTaskId = NoId
           THEN resetConversation(
                    pushMessage(q, "assistant", "Looks like that task vanished.", <<>>))
           ELSE IF saysYes(userInput)
           THEN showIdleOptions(
                    pushMessage(setTasks(q, mergeSelected(q.tasks, cur.selectedTaskId,
                                                          cur.pendingTask)),
                                "assistant", "Updated! Anything else?", <<>>))
           ELSE showIdleOptions(pushMessage(q, "assistant", "No changes saved.", <<>>))
      [] OTHER -> q

----------------------------------------------------------------------------
(* The Delete flow and the View flow. *)

\* A removal by position: drops the head of the list.
filterOut_head(prev, id) == Tail(prev)

\* prev.filter(task => task.id !== selectedTaskId)
RECURSIVE filterOut(_, _)
filterOut(prev, id) ==
    IF prev = <<>> THEN <<>>
    ELSE (IF Head(prev).id # id THEN <<Head(prev)>> ELSE <<>>) \o filterOut(Tail(prev), id)

handleDeleteFlow(cur, q, userInput) ==
    CASE cur.flowStep = 0 ->
           IF Len(cur.tasks) = 0
           THEN resetConversation(
                    pushMessage(q, "assistant",
                                "No tasks to delete right now. Want to add one instead?", <<>>))
           ELSE [pushMessage(q, "assistant", "Got it. Which task should I delete?\n%list",
                             listRows(cur.tasks))
                   EXCEPT !.flowStep = 1]
      [] cur.flowStep = 1 ->
           LET index == parseIndex(userInput)
           IN  IF invalidIndex(index, cur.tasks)
               THEN pushMessage(q, "assistant", "Please choose a valid task number.", <<>>)
               ELSE LET task == cur.tasks[index[1] + 1]
                    IN  [pushMessage(q, "assistant",
                                     "Just to confirm, delete \"%1\" due %2? (yes/no)",
                                     <<task.title, task.due>>)
                           EXCEPT !.selectedTaskId = task.id,
                                  !.buttons = << [label |-> "Yes, delete",  value |-> wYes],
                                                 [label |-> "No, keep it", value |-> wNo] >>,
                                  !.flowStep = 2]
      [] cur.flowStep = 2 ->
           IF cur.selectedTaskId = NoId
           THEN resetConversation(pushMessage(q, "assistant", "Task already gone.", <<>>))
           ELSE IF saysYes(userInput)
           THEN showIdleOptions(
                    pushMessage(setTasks(q, filterOut(q.tasks, cur.selectedTaskId)),
                                "assistant", "Done! Task removed.", <<>>))
           ELSE showIdleOptions(pushMessage(q, "assistant", "Okay, nothing deleted.", <<>>))
      [] OTHER -> q

\* task => `* ${title}\n Due: ${due}\n Priority: ${priority}\n Reminder: ${reminder ?? 'None'}`
RECURSIVE viewRows(_)
viewRows(list) ==
    IF list = <<>> THEN <<>>
    ELSE summaryParts(Head(list)) \o viewRows(Tail(list))

\* A View flow that offers the idle options on an empty store as well.
handleViewFlow_alwaysOffers(cur, q) ==
    IF Len(cur.tasks) = 0
    THEN showIdleOptions(
             pushMessage(q, "assistant",
                         "You do not have any tasks yet. Ready to add one?", <<>>))
    ELSE showIdleOptions(
             pushMessage(q, "assistant", "Here is what is on your list:\n%list",
                         viewRows(cur.tasks)))

handleViewFlow(cur, q) ==
    IF Len(cur.tasks) = 0
    THEN resetConversation(
             pushMessage(q, "assistant",
                         "You do not have any tasks yet. Ready to add one?", <<>>))
    ELSE showIdleOptions(
             pushMessage(q, "assistant", "Here is what is on your list:\n%list",
                         viewRows(cur.tasks)))

----------------------------------------------------------------------------
(* Routing and the turn. *)

\* A chain that tests update before add.
detectIntent_updateFirst(intent) ==
    IF includes(intent, kwUpdate) THEN "update"
    ELSE IF includes(intent, kwAdd) THEN "add"
    ELSE IF includes(intent, kwDelete) \/ includes(intent, kwRemove) THEN "delete"
    ELSE IF includes(intent, kwView) \/ includes(intent, kwShow) \/ includes(intent, kwList)
    THEN "view"
    ELSE "idle"

\* The chain of keyword tests of the idle branch: the first group that matches.
detectIntent(intent) ==
    IF includes(intent, kwAdd) THEN "add"
    ELSE IF includes(intent, kwUpdate) THEN "update"
    ELSE IF includes(intent, kwDelete) \/ includes(intent, kwRemove) THEN "delete"
    ELSE IF includes(intent, kwView) \/ includes(intent, kwShow) \/ includes(intent, kwList)
    THEN "view"
    ELSE "idle"

\* A router that looks for the keywords whatever the active intent.
routeInput_keywordsAnywhere(cur, q, userInput) ==
    LET intent   == toLowerCase(trim(userInput))
        matched  == detectIntent(intent)
        enter(a) == [q EXCEPT !.action = a, !.flowStep = 0, !.buttons = <<>>]
        idle     == [cur EXCEPT !.flowStep = 0]
    IN  IF cur.action = "idle" \/ matched # "idle"
        THEN CASE matched = "add"    -> handleAddFlow(idle, enter("add"), <<>>)
               [] matched = "update" -> handleUpdateFlow(idle, enter("update"), <<>>)
               [] matched = "delete" -> handleDeleteFlow(idle, enter("delete"), <<>>)
               [] matched = "view"   -> handleViewFlow(idle, enter("view"))
               [] OTHER ->
                    [pushMessage(q, "assistant",
                                 "I can add, update, delete, or show tasks. Which one do you need?",
                                 <<>>)
                       EXCEPT !.buttons = idleActions]
        ELSE CASE cur.action = "add"    -> handleAddFlow(cur, q, userInput)
               [] cur.action = "update" -> handleUpdateFlow(cur, q, userInput)
               [] cur.action = "delete" -> handleDeleteFlow(cur, q, userInput)
               [] OTHER                 -> q

routeInput(cur, q, userInput) ==
    IF cur.action = "idle"
    THEN LET intent   == toLowerCase(trim(userInput))
             matched  == detectIntent(intent)
             enter(a) == [q EXCEPT !.action = a, !.flowStep = 0, !.buttons = <<>>]
         IN  CASE matched = "add"    -> handleAddFlow(cur, enter("add"), <<>>)
               [] matched = "update" -> handleUpdateFlow(cur, enter("update"), <<>>)
               [] matched = "delete" -> handleDeleteFlow(cur, enter("delete"), <<>>)
               [] matched = "view"   -> handleViewFlow(cur, enter("view"))
               [] OTHER ->
                    [pushMessage(q, "assistant",
                                 "I can add, update, delete, or show tasks. Which one do you need?",
                                 <<>>)
                       EXCEPT !.buttons = idleActions]
    ELSE CASE cur.action = "add"    -> handleAddFlow(cur, q, userInput)
           [] cur.action = "update" -> handleUpdateFlow(cur, q, userInput)
           [] cur.action = "delete" -> handleDeleteFlow(cur, q, userInput)
           [] cur.action = "view"   -> handleViewFlow(cur, q)
           [] OTHER                 -> q

\* handleSend(value?): value is the value of a pressed button, or null when the
\* text of the input box is sent.  The log variable keeps the messages of the
\* latest turn only, so a turn starts a new suffix.
handleSend(cur, value, input) ==
    LET messageText == IF value # null THEN value ELSE trim(input)
    IN  IF messageText = <<>> THEN cur
        ELSE routeInput(cur,
                        pushMessage([cur EXCEPT !.messages = <<>>], "user", "%1",
                                    <<messageText>>),
                        messageText)

\* A persist effect that skips an empty list.
persistEffect_skipsEmptyList(q) ==
    IF q.tasksSet /\ q.tasks # <<>>
    THEN [q EXCEPT !.storage = JSONstringify(q.tasks)]
    ELSE q

\* useEffect(() => localStorage.setItem(key, JSON.stringify(tasks)), [tasks]):
\* runs after the render that follows a setTasks.
persistEffect(q) ==
    IF q.tasksSet THEN [q EXCEPT !.storage = JSONstringify(q.tasks)] ELSE q

\* One turn: the handler, the re-render with the queued state, the effects.
Turn(value, input) ==
    LET q == persistEffect(handleSend(Current, value, input))
    IN  /\ messages' = q.messages
        /\ tasks' = q.tasks
        /\ action' = q.action
        /\ flowStep' = q.flowStep
        /\ pendingTask' = q.pendingTask
        /\ selectedTaskId' = q.selectedTaskId
        /\ pendingField' = q.pendingField
        /\ buttons' = q.buttons
        /\ storage' = q.storage
        /\ lifecycle' = lifecycle

----------------------------------------------------------------------------
(* The user.  What is typed is drawn from a small vocabulary for the step   *)
(* the conversation is at; a button press sends the value of the button.    *)

IdleTexts ==
    { <<"h","e","l","l","o">>,
      <<" ","S","h","o","w"," ">>,
      <<"l","i","s","t">>,
      <<"p","l","s"," ","r","e","m","o","v","e">>,
      <<"u","p","d","a","t","e"," ","A","D","D","r","e","s","s">>,
      <<"U","p","d","a","t","e","/","d","e","l","e","t","e">>,
      <<"d","e","l","e","t","e"," ","v","i","e","w">> }
IndexTexts ==
    { <<"#","1">>,
      <<"2">>,
      <<"3">>,
      <<"1","2">>,
      <<"0">>,
      <<"1","a">>,
      <<"o","n","e">>,
      <<"-","1">> }
FieldTexts ==
    { <<"D","U","E"," ">>,
      <<"c","o","l","o","r">> }
PriorityTexts ==
    { <<" ","L","O","W">>,
      <<"u","r","g","e","n","t">> }
YesNoTexts ==
    { <<"Y","e","a","h">>,
      <<" ","N","o">>,
      <<"m","a","y","b","e">> }
ReminderOptionTexts ==
    { <<"R","e","m","o","v","e">>,
      <<"U","P","D","A","T","E">> }
TitleTexts ==
    { <<" ","d","e","l","e","t","e"," ">> }
DueTexts ==
    { <<"9","a","m">> }
ReminderTexts ==
    { <<"8","a","m">> }
BlankTexts ==
    { <<" "," ">> }

\* What the user may type at the current step.
Vocabulary ==
    BlankTexts \cup
    CASE action = "idle" -> IdleTexts
      [] action = "add" /\ flowStep = 1 -> TitleTexts
      [] action = "add" /\ flowStep = 2 -> DueTexts
      [] action = "add" /\ flowStep = 3 -> PriorityTexts
      [] action = "add" /\ flowStep \in {4, 6} -> YesNoTexts
      [] action = "add" /\ flowStep = 5 -> ReminderTexts
      [] action \in {"update", "delete"} /\ flowStep = 1 -> IndexTexts
      [] action = "update" /\ flowStep = 2 -> FieldTexts
      [] action = "update" /\ flowStep = 3 /\ pendingField = "title" -> TitleTexts
      [] action = "update" /\ flowStep = 3 /\ pendingField = "due" -> DueTexts
      [] action = "update" /\ flowStep = 3 /\ pendingField = "priority" -> PriorityTexts
      [] action = "update" /\ flowStep = 3 /\ pendingField = "reminder" ->
             ReminderOptionTexts \cup ReminderTexts
      [] action = "update" /\ flowStep = 4 -> ReminderTexts
      [] action = "update" /\ flowStep = 5 -> YesNoTexts
      [] action = "delete" /\ flowStep = 2 -> YesNoTexts
      [] OTHER -> {}

\* The bound on the store: no Add flow is started on a full store.
StartsAdd(messageText) ==
    action = "idle" /\ detectIntent(toLowerCase(trim(messageText))) = "add"

WithinBounds(messageText) == StartsAdd(messageText) => Len(tasks) < MaxTasks

\* The user types a text and sends it.
TypeMessage ==
    \E input \in Vocabulary :
        /\ lifecycle.phase = "ready"
        /\ WithinBounds(input)
        /\ Turn(null, input)

\* The user presses one of the offered buttons.
PressButton ==
    \E b \in 1..Len(buttons) :
        /\ lifecycle.phase = "ready"
        /\ WithinBounds(buttons[b].value)
        /\ Turn(buttons[b].value, <<>>)

\* const initialMessages: Message[]
initialMessages ==
    << [role |-> "assistant",
        text |-> "Hey! I'm your WhatsApp Task Scheduler. Need to add, update, delete, or check tasks?",
        args |-> <<>>],
       [role |-> "assistant",
        text |-> "Just tap an option or tell me what you need.",
        args |-> <<>>] >>

\* Where the page is in its start-up.
rendered == [phase |-> "rendered", queued |-> <<>>]
loading(list) == [phase |-> "loading", queued |-> list]
ready == [phase |-> "ready", queued |-> <<>>]

\* The first render of the page over a slot: the useState initial values.
firstRender(slot) ==
    [messages |-> initialMessages, tasks |-> <<>>, action |-> "idle",
     flowStep |-> 0, pendingTask |-> defaultPendingTask,
     selectedTaskId |-> NoId, pendingField |-> NoField,
     buttons |-> idleActions, storage |-> slot, tasksSet |-> FALSE]

\* The page opened over a slot.
opened(slot) ==
    LET q == firstRender(slot)
    IN  /\ messages = q.messages
        /\ tasks = q.tasks
        /\ action = q.action
        /\ flowStep = q.flowStep
        /\ pendingTask = q.pendingTask
        /\ selectedTaskId = q.selectedTaskId
        /\ pendingField = q.pendingField
        /\ buttons = q.buttons
        /\ storage = q.storage
        /\ lifecycle = rendered

\* The page opened for the first time: nothing is stored yet.
Init == opened(absentSlot)

\* useEffect(() => { ...getItem...; setTasks(parsed) }, []): the load effect.
loadEffect(q) ==
    LET stored == q.storage
    IN  IF ~truthy(stored) THEN q
        ELSE IF throwsSyntaxError(stored) THEN q
        ELSE LET parsed == JSONparse(stored)
             IN  IF parsed.isArray THEN setTasks(q, parsed.elements) ELSE q

\* The effects of the first render, in the order they are declared: the load
\* effect queues the stored list, the persist effect writes the list of this
\* render.
Mount ==
    /\ lifecycle.phase = "rendered"
    /\ LET loaded == loadEffect(Current)
           written == persistEffect([Current EXCEPT !.tasksSet = TRUE])
       IN  /\ storage' = written.storage
           /\ lifecycle' = IF loaded.tasksSet THEN loading(loaded.tasks) ELSE ready
    /\ UNCHANGED <<messages, tasks, action, flowStep, pendingTask,
                   selectedTaskId, pendingField, buttons>>

\* The render of the list the load effect queued, and its persist effect.
Rerender ==
    /\ lifecycle.phase = "loading"
    /\ LET q == persistEffect(setTasks(Current, lifecycle.queued))
       IN  /\ tasks' = q.tasks
           /\ storage' = q.storage
    /\ lifecycle' = ready
    /\ UNCHANGED <<messages, action, flowStep, pendingTask, selectedTaskId,
                   pendingField, buttons>>

\* The page is reloaded: the state of the component is lost, the slot stays.
Restart ==
    LET q == firstRender(storage)
    IN  /\ messages' = q.messages
        /\ tasks' = q.tasks
        /\ action' = q.action
        /\ flowStep' = q.flowStep
        /\ pendingTask' = q.pendingTask
        /\ selectedTaskId' = q.selectedTaskId
        /\ pendingField' = q.pendingField
        /\ buttons' = q.buttons
        /\ storage' = q.storage
        /\ lifecycle' = rendered

\* What the slot may hold when the page is opened: nothing, '', a text that is
\* no JSON, a JSON value that is no array, and arrays written by something
\* else than this page (a priority outside the enumeration, an id used twice).
emptyText == [type |-> "empty", items |-> <<>>]
unparsableText == [type |-> "unparsable", items |-> <<>>]
objectText == [type |-> "object", items |-> <<>>]
storedTask(id, priority) ==
    [id |-> id, title |-> kwDelete, due |-> <<"9","a","m">>,
     priority |-> priority, reminder |-> null]
Urgent == <<"U","r","g","e","n","t">>
urgentArray == JSONstringify(<<storedTask(1, Urgent)>>)
twinsArray == JSONstringify(<<storedTask(1, High), storedTask(1, Low)>>)
StoredSlots ==
    {absentSlot, emptyText, unparsableText, objectText, urgentArray, twinsArray}

\* The page opened over whatever the slot holds.
InitAnySlot == \E slot \in StoredSlots : opened(slot)

Next == Mount \/ Rerender \/ Restart \/ TypeMessage \/ PressButton

Spec == Init /\ [][Next]_vars

SpecAnySlot == InitAnySlot /\ [][Next]_vars

----------------------------------------------------------------------------
(* Vocabulary of the properties. *)

\* The step is a user turn: its log starts with the message of the user.
UserTurn == lifecycle' = ready /\ lifecycle = ready /\ messages'[1].role = "user"

\* The text the turn of this step sent to the engine.
Sent == IF messages'[1].role = "user" THEN messages'[1].args[1] ELSE <<>>

\* The input starts with 'y' / with 'n', whatever the case of the letter.
StartsWithY(s) == s # <<>> /\ s[1] \in {"y", "Y"}
StartsWithN(s) == s # <<>> /\ s[1] \in {"n", "N"}

\* The priority a word names, compared without regard to case.
NamesPriority(s, p) == p \in {High, Medium, Low} /\ toLowerCase(p) = toLowerCase(s)

\* The draft keeps these fields as they were.
DraftKeeps(keys) ==
    \A f \in keys : /\ f \in DOMAIN pendingTask
                    /\ f \in DOMAIN pendingTask'
                    /\ pendingTask'[f] = pendingTask[f]

\* The ids of the tasks of a list.
IdsOf(list) == {list[k].id : k \in 1..Len(list)}

\* The engine is back in Idle, everything reset.
BackInIdle ==
    /\ action' = "idle"
    /\ flowStep' = 0
    /\ pendingTask' = [priority |-> Medium]
    /\ selectedTaskId' = NoId
    /\ pendingField' = NoField
    /\ buttons' = idleActions

AllSetText == "All set!\nTask: %1\nDue: %2\nPriority: %3\nReminder: %4"

----------------------------------------------------------------------------
(* C1: a completed Add flow appends exactly one task, built from the inputs *)
(* of its steps, and returns to Idle.                                       *)

C1_AddStep ==
    action = "add" =>
        /\ flowStep = 1 =>
              /\ action' = "add" /\ flowStep' = 2
              /\ "title" \in DOMAIN pendingTask' /\ pendingTask'["title"] = Sent
        /\ flowStep = 2 =>
              /\ action' = "add" /\ flowStep' = 3
              /\ "due" \in DOMAIN pendingTask' /\ pendingTask'["due"] = Sent
              /\ DraftKeeps({"title"})
        /\ \A p \in {High, Medium, Low} :
              (flowStep = 3 /\ NamesPriority(Sent, p)) =>
                  /\ action' = "add" /\ flowStep' = 4
                  /\ pendingTask'["priority"] = p
                  /\ DraftKeeps({"title", "due"})
        /\ (flowStep = 4 /\ StartsWithY(Sent)) =>
              /\ action' = "add" /\ flowStep' = 5
              /\ DraftKeeps({"title", "due", "priority"})
        /\ (flowStep = 4 /\ StartsWithN(Sent)) =>
              /\ action' = "add" /\ flowStep' = 6
              /\ "reminder" \in DOMAIN pendingTask' /\ pendingTask'["reminder"] = null
              /\ DraftKeeps({"title", "due", "priority"})
        /\ flowStep = 5 =>
              /\ action' = "add" /\ flowStep' = 6
              /\ "reminder" \in DOMAIN pendingTask' /\ pendingTask'["reminder"] = Sent
              /\ DraftKeeps({"title", "due", "priority"})
        /\ (flowStep = 6 /\ StartsWithY(Sent)) =>
              /\ Len(tasks') = Len(tasks) + 1
              /\ SubSeq(tasks', 1, Len(tasks)) = tasks
              /\ LET new == tasks'[Len(tasks')]
                 IN  /\ new.id \notin IdsOf(tasks)
                     /\ new.title = pendingTask["title"]
                     /\ new.due = pendingTask["due"]
                     /\ new.priority = pendingTask["priority"]
                     /\ new.reminder = pendingTask["reminder"]
              /\ BackInIdle

\* C1: running the Add flow to completion (title, due, a valid priority, the
\* reminder answer, then a 'y' at step 6) appends exactly one task at the end
\* of the store, carrying the title, due, priority and reminder (or no
\* reminder) entered; the earlier tasks and their order are untouched and the
\* engine is Idle with the four top-level buttons.
C1_AddAppendsOneTask == [][UserTurn => C1_AddStep]_vars

\* A second task, with a reminder, has just been added after one without.
C1_Witness ==
    /\ Len(messages) >= 2 /\ messages[2].text = AllSetText
    /\ action = "idle"
    /\ Len(tasks) = 2
    /\ tasks[1].reminder = null
    /\ tasks[2].reminder # null
    /\ tasks[2].priority = Low

----------------------------------------------------------------------------
(* C2: a saved Update changes one field of one task.                        *)

\* The word that names a field key.
WordOf(key) == fieldWords[CHOOSE k \in 1..4 : fieldKeys[k] = key]

\* The delta the input of step 3 or 4 denotes for the pending field.
C2_DeltaIs(delta) ==
    /\ DOMAIN delta = {pendingField}
    /\ pendingField \in {"title", "due"} => delta[pendingField] = Sent
    /\ pendingField = "priority" => NamesPriority(Sent, delta[pendingField])
    /\ pendingField = "reminder" =>
          delta[pendingField] =
              IF flowStep = 3 /\ toLowerCase(Sent) = kwRemove THEN null ELSE Sent

C2_UpdateStep ==
    action = "update" =>
        /\ (flowStep = 2 /\ flowStep' = 3) =>
              /\ pendingField' \in {"title", "due", "priority", "reminder"}
              /\ WordOf(pendingField') = toLowerCase(Sent)
              /\ selectedTaskId' = selectedTaskId
              /\ tasks' = tasks
        /\ (flowStep \in {3, 4} /\ flowStep' \in {4, 5}) =>
              /\ selectedTaskId' = selectedTaskId
              /\ pendingField' = pendingField
              /\ tasks' = tasks
        /\ (flowStep \in {3, 4} /\ flowStep' = 5) => C2_DeltaIs(pendingTask')
        /\ (flowStep = 5 /\ StartsWithY(Sent)) =>
              /\ pendingField \in {"title", "due", "priority", "reminder"}
              /\ \E k \in 1..Len(tasks) :
                    /\ tasks[k].id = selectedTaskId
                    /\ tasks' = [tasks EXCEPT
                                   ![k] = [tasks[k] EXCEPT
                                             ![pendingField] = pendingTask[pendingField]]]

\* C2: when the Update flow is completed with a 'y' at step 5, exactly the
\* field chosen at step 2, of the task selected at step 1, takes the value
\* entered; that task's id and other fields, every other task, the number of
\* tasks and their order are unchanged.
C2_UpdateChangesOneField == [][UserTurn => C2_UpdateStep]_vars

\* An update has just been saved in a store of two tasks that now differ in
\* priority and in reminder.
C2_Witness ==
    /\ Len(messages) >= 2 /\ messages[2].text = "Updated! Anything else?"
    /\ Len(tasks) = 2
    /\ tasks[1].priority # tasks[2].priority
    /\ tasks[1].reminder # tasks[2].reminder

----------------------------------------------------------------------------
(* C3: a confirmed Delete removes the selected task only.                   *)

\* The list without its k-th element.
WithoutNth(list, k) == SubSeq(list, 1, k - 1) \o SubSeq(list, k + 1, Len(list))

C3_DeleteStep ==
    action = "delete" =>
        /\ (flowStep = 1 /\ flowStep' = 2) =>
              /\ selectedTaskId' \in IdsOf(tasks)
              /\ tasks' = tasks
        /\ (flowStep = 2 /\ StartsWithY(Sent)) =>
              /\ \E k \in 1..Len(tasks) :
                    /\ tasks[k].id = selectedTaskId
                    /\ tasks' = WithoutNth(tasks, k)
              /\ BackInIdle

\* C3: when the Delete flow is confirmed with a 'y' at step 2, exactly the task
\* selected at step 1 is removed; the other tasks remain, unmodified and in the
\* same order, and the engine returns to Idle.
C3_DeleteRemovesSelected == [][UserTurn => C3_DeleteStep]_vars

\* The first of two tasks has just been deleted; the second remains.
C3_Witness ==
    /\ Len(messages) >= 2 /\ messages[2].text = "Done! Task removed."
    /\ Len(tasks) = 1
    /\ tasks[1].id = 2
    /\ action = "idle"

----------------------------------------------------------------------------
(* C4: "no" at a final confirmation changes nothing and returns to Idle.    *)

\* The conversation is at the final confirmation of a flow.
AtFinalConfirmation ==
    \/ action = "add" /\ flowStep = 6
    \/ action = "update" /\ flowStep = 5
    \/ action = "delete" /\ flowStep = 2

C4_NoStep ==
    (AtFinalConfirmation /\ StartsWithN(Sent)) =>
        /\ tasks' = tasks
        /\ BackInIdle

\* C4: submitting "no" at a final confirmation step (Add step 6, Update step 5,
\* Delete step 2) leaves the Task Store unchanged and returns the engine to
\* Idle: step 0, default draft, no selection, no pending field, the top-level
\* buttons.
C4_NoLeavesStoreAndResets == [][UserTurn => C4_NoStep]_vars

\* An update of a store of two tasks has just been declined with "no".
C4_Witness ==
    /\ Len(messages) >= 2 /\ messages[2].text = "No changes saved."
    /\ StartsWithN(messages[1].args[1])
    /\ Len(tasks) = 2
    /\ action = "idle" /\ selectedTaskId = NoId

----------------------------------------------------------------------------
(* C5: the index step of the Update and Delete flows.                       *)

AtIndexStep == action \in {"update", "delete"} /\ flowStep = 1

\* The task number a text starts with, read off its characters: the digits
\* that follow an optional '#', up to the first character that is no digit
\* (numbers of one or two digits; -1 when the text starts with no digit).
NumberAtHead(s) ==
    LET body == IF s # <<>> /\ s[1] = "#" THEN SubSeq(s, 2, Len(s)) ELSE s
        isD(k) == k <= Len(body) /\ body[k] \in {Digits[d] : d \in 1..10}
        val(k) == (CHOOSE d \in 1..10 : Digits[d] = body[k]) - 1
    IN  IF ~isD(1) THEN -1
        ELSE IF ~isD(2) THEN val(1)
        ELSE 10 * val(1) + val(2)

\* The text is `#k` or `k` and nothing else.
IsNumeral(s) ==
    LET body == IF s # <<>> /\ s[1] = "#" THEN SubSeq(s, 2, Len(s)) ELSE s
    IN  /\ body # <<>>
        /\ \A k \in 1..Len(body) : body[k] \in {Digits[d] : d \in 1..10}

\* The step selects the task at position k and moves on.
SelectsTask(k) ==
    /\ selectedTaskId' = tasks[k].id
    /\ flowStep' = 2
    /\ action' = action
    /\ tasks' = tasks

\* The step asks again: selection and step counter as before.
RepromptsIndex ==
    /\ selectedTaskId' = selectedTaskId
    /\ flowStep' = flowStep
    /\ action' = action
    /\ tasks' = tasks
    /\ Len(messages') = 2 /\ messages'[2].role = "assistant"

C5_OriginalStep ==
    AtIndexStep =>
        /\ (IsNumeral(Sent) /\ NumberAtHead(Sent) \in 1..Len(tasks)) =>
              SelectsTask(NumberAtHead(Sent))
        /\ (~IsNumeral(Sent) \/ NumberAtHead(Sent) \notin 1..Len(tasks)) =>
              RepromptsIndex

\* C5 as claimed: `#k` or `k` with 1 <= k <= N selects the task at position
\* k-1, and every input that is not numeric or whose index is outside [1, N]
\* is asked again with selection and step unchanged.
C5_Original == [][UserTurn => C5_OriginalStep]_vars

C5_AmendedStep ==
    AtIndexStep =>
        /\ NumberAtHead(Sent) \in 1..Len(tasks) => SelectsTask(NumberAtHead(Sent))
        /\ NumberAtHead(Sent) \notin 1..Len(tasks) => RepromptsIndex

\* C5 as amended: the index is the run of digits at the head of the input,
\* after an optional '#', and what follows the digits is ignored; an input
\* whose leading number k is in [1, N] selects the task at position k-1 and
\* advances, and an input that starts with no digit or whose leading number is
\* outside [1, N] (0 included) is asked again with selection and step unchanged.
C5_IndexIsLeadingNumber == [][UserTurn => C5_AmendedStep]_vars

\* The second of two tasks has just been selected by its number.
C5_Witness ==
    /\ action \in {"update", "delete"} /\ flowStep = 2
    /\ Len(tasks) = 2
    /\ selectedTaskId = tasks[2].id
    /\ messages[1].args[1] = <<"2">>

----------------------------------------------------------------------------
(* C6: where the Task Store changes.                                        *)

C6_StoreStep ==
    tasks' # tasks =>
        \/ /\ action = "add" /\ flowStep = 6 /\ StartsWithY(Sent)
           /\ Len(tasks') = Len(tasks) + 1
           /\ SubSeq(tasks', 1, Len(tasks)) = tasks
        \/ /\ action = "update" /\ flowStep = 5 /\ StartsWithY(Sent)
           /\ Len(tasks') = Len(tasks)
           /\ \A k \in 1..Len(tasks) : tasks'[k].id = tasks[k].id
        \/ /\ action = "delete" /\ flowStep = 2 /\ StartsWithY(Sent)
           /\ Len(tasks') = Len(tasks) - 1
           /\ \A k \in 1..Len(tasks') : tasks'[k] \in {tasks[j] : j \in 1..Len(tasks)}

\* C6: over every sequence of user turns the Task Store changes in three
\* transitions only: a task is created at the Add flow's save step (step 6,
\* 'y'), a task is modified at the Update flow's save step (step 5, 'y'), a
\* task is removed at the Delete flow's confirm step (step 2, 'y'); every
\* other turn leaves the store as it was.
C6_StoreChangesOnlyAtSaves == [][UserTurn => C6_StoreStep]_vars

\* The preview of an update is shown while the store still holds the old value.
C6_Witness ==
    /\ action = "update" /\ flowStep = 5
    /\ pendingField = "priority"
    /\ \E k \in 1..Len(tasks) :
          /\ tasks[k].id = selectedTaskId
          /\ tasks[k].priority # pendingTask["priority"]

----------------------------------------------------------------------------
(* C7: an unrecognized field name or priority word.                         *)

UnrecognizedField(s) == \A k \in 1..4 : fieldWords[k] # toLowerCase(s)

UnrecognizedPriority(s) == \A p \in {High, Medium, Low} : ~NamesPriority(s, p)

\* The engine answers with one assistant message and nothing else changes.
RepromptsUnchanged ==
    /\ Len(messages') = 2 /\ messages'[2].role = "assistant"
    /\ action' = action
    /\ flowStep' = flowStep
    /\ pendingTask' = pendingTask
    /\ selectedTaskId' = selectedTaskId
    /\ pendingField' = pendingField
    /\ buttons' = buttons
    /\ tasks' = tasks

C7_Step ==
    ( \/ action = "update" /\ flowStep = 2 /\ UnrecognizedField(Sent)
      \/ action = "add" /\ flowStep = 3 /\ UnrecognizedPriority(Sent)
      \/ action = "update" /\ flowStep = 3 /\ pendingField = "priority"
            /\ UnrecognizedPriority(Sent) )
    => RepromptsUnchanged

\* C7: an unrecognized field name at Update step 2, or an unrecognized priority
\* word at Add step 3 or at Update step 3 (field priority), makes the engine
\* emit a clarifying assistant message and stay in the same intent at the same
\* step; draft, selected task, pending field, buttons and Task Store unchanged.
C7_InvalidWordReprompts == [][UserTurn => C7_Step]_vars

\* The Update flow has just asked again for a priority after "urgent".
C7_Witness ==
    /\ action = "update" /\ flowStep = 3 /\ pendingField = "priority"
    /\ Len(messages) = 2
    /\ messages[1].args[1] = <<"u","r","g","e","n","t">>
    /\ messages[2].text = "Priority should be High, Medium, or Low."

----------------------------------------------------------------------------
(* C8: an answer that is neither yes nor no.                                *)

NeitherYesNorNo(s) == ~StartsWithY(s) /\ ~StartsWithN(s)

C8_OriginalStep ==
    ( /\ \/ action = "add" /\ flowStep \in {4, 6}
         \/ action = "update" /\ flowStep = 5
         \/ action = "delete" /\ flowStep = 2
      /\ NeitherYesNorNo(Sent) )
    => RepromptsUnchanged

\* C8 as claimed: an answer starting with neither 'y' nor 'n' at Add step 4,
\* Add step 6, Update step 5 or Delete step 2 is a validation failure: a
\* clarifying message, the same step again, nothing changed.
C8_Original == [][UserTurn => C8_OriginalStep]_vars

C8_AmendedStep ==
    /\ (action = "add" /\ flowStep = 4 /\ NeitherYesNorNo(Sent)) => RepromptsUnchanged
    /\ (AtFinalConfirmation /\ ~StartsWithY(Sent)) =>
          /\ tasks' = tasks
          /\ BackInIdle
          /\ Len(messages') = 3
          /\ messages'[2].role = "assistant" /\ messages'[3].role = "assistant"

\* C8 as amended: only Add step 4 asks again on an answer that starts with
\* neither 'y' nor 'n' (one clarifying message, same step, nothing changed).
\* At the final confirmations (Add step 6, Update step 5, Delete step 2) every
\* answer that does not start with 'y' is taken as "no": the engine says so,
\* leaves the Task Store unchanged and returns to Idle, reset.
C8_OnlyAddStep4Reprompts == [][UserTurn => C8_AmendedStep]_vars

\* "maybe" at the save step of the Add flow has just discarded the draft.
C8_Witness ==
    /\ Len(messages) = 3
    /\ messages[1].args[1] = <<"m","a","y","b","e">>
    /\ messages[2].text = "No worries, I will discard that task."
    /\ action = "idle" /\ flowStep = 0

----------------------------------------------------------------------------
(* C9 and C10: the idle router.                                             *)

\* The word occurs somewhere in the text, whatever the case of the letters.
Mentions(s, word) ==
    \E from \in 1..Len(s) :
        /\ from + Len(word) - 1 <= Len(s)
        /\ \A k \in 1..Len(word) : ToLowerChar(s[from + k - 1]) = word[k]

MentionsAdd(s) == Mentions(s, kwAdd)
MentionsUpdate(s) == Mentions(s, kwUpdate)
MentionsDelete(s) == Mentions(s, kwDelete) \/ Mentions(s, kwRemove)
MentionsView(s) == Mentions(s, kwView) \/ Mentions(s, kwShow) \/ Mentions(s, kwList)

\* The first assistant message of the turn.
Reply == messages'[2].text

C9_Step ==
    (action = "idle" /\ Sent # <<>>) =>
        /\ tasks' = tasks
        /\ IF MentionsAdd(Sent)
           THEN action' = "add" /\ flowStep' = 1 /\ Reply = "Great! What is the task?"
           ELSE IF MentionsUpdate(Sent)
           THEN IF tasks = <<>>
                THEN action' = "idle" /\ Reply = "You have no tasks yet. Let's add one."
                ELSE /\ action' = "update" /\ flowStep' = 1
                     /\ Reply = "Which task do you want to update?\n%list"
           ELSE IF MentionsDelete(Sent)
           THEN IF tasks = <<>>
                THEN /\ action' = "idle"
                     /\ Reply = "No tasks to delete right now. Want to add one instead?"
                ELSE /\ action' = "delete" /\ flowStep' = 1
                     /\ Reply = "Got it. Which task should I delete?\n%list"
           ELSE IF MentionsView(Sent)
           THEN /\ action' = "idle"
                /\ Reply = IF tasks = <<>>
                           THEN "You do not have any tasks yet. Ready to add one?"
                           ELSE "Here is what is on your list:\n%list"
           ELSE /\ action' = "idle" /\ flowStep' = 0 /\ buttons' = idleActions
                /\ Len(messages') = 2
                /\ Reply = "I can add, update, delete, or show tasks. Which one do you need?"

\* C9: in Idle the intent is the first group, in the order add, update,
\* delete/remove, view/show/list, one of whose keywords occurs in the input
\* (any case, anywhere): the flow of that group alone is started; an input with
\* none of the keywords keeps the engine Idle at step 0 with the four top-level
\* buttons; the Task Store is unchanged either way.
C9_RouterPrecedence == [][UserTurn => C9_Step]_vars

\* "update ADDress" mentions add and update: the Add flow was started.
C9_Witness ==
    /\ action = "add" /\ flowStep = 1
    /\ messages[1].args[1] = <<"u","p","d","a","t","e"," ","A","D","D","r","e","s","s">>
    /\ Len(tasks) = 1

MentionsIntent(s) ==
    MentionsAdd(s) \/ MentionsUpdate(s) \/ MentionsDelete(s) \/ MentionsView(s)

C10_Step ==
    /\ action' # action => (action = "idle" \/ action' = "idle")
    /\ (action = "idle" /\ action' = "add") => MentionsAdd(Sent)
    /\ (action = "idle" /\ action' = "update") => MentionsUpdate(Sent)
    /\ (action = "idle" /\ action' = "delete") => MentionsDelete(Sent)
    /\ (action # "idle" /\ action' = "idle") => AtFinalConfirmation
    /\ (action = "add" /\ flowStep = 1 /\ MentionsIntent(Sent)) =>
          /\ action' = "add" /\ flowStep' = 2
          /\ pendingTask'["title"] = Sent

\* C10: the active intent changes only from Idle to a flow, through the
\* router's keywords, or from a flow back to Idle at its final step, never
\* from one flow to another; an input with an intent keyword sent while a flow
\* is active ("delete" as the title at Add step 1) is consumed by the current
\* step of that flow.
C10_OnlyRouterEntersFlows == [][UserTurn => C10_Step]_vars

\* The Add flow has taken "delete" as the title and moved on to the due date.
C10_Witness ==
    /\ action = "add" /\ flowStep = 2
    /\ pendingTask["title"] = kwDelete
    /\ messages[1].args[1] = kwDelete

----------------------------------------------------------------------------
(* C11 *)

\* The labels of the buttons offered.
ButtonLabels == [k \in 1..Len(buttons) |-> buttons[k].label]

\* The values the buttons offered send.
ButtonValues == [k \in 1..Len(buttons) |-> buttons[k].value]

\* The four top-level quick actions are offered.
TopLevelButtons ==
    /\ ButtonLabels = <<"Add Task", "Update Task", "Delete Task", "View Tasks">>
    /\ ButtonValues = <<vAddTask, vUpdateTask, vDeleteTask, vViewTasks>>

\* C11: in every state between turns, an engine in Idle is at step 0 with
\* the default draft (priority Medium, nothing else), no selected task, no
\* pending field and the four top-level buttons; so the reset has been applied
\* after every flow that completed.
C11_IdleIsReset ==
    action = "idle" =>
        /\ flowStep = 0
        /\ DOMAIN pendingTask = {"priority"}
        /\ pendingTask["priority"] = Medium
        /\ selectedTaskId = NoId
        /\ pendingField = NoField
        /\ TopLevelButtons

\* A task was saved by the Add flow and the engine is back in Idle.
C11_Witness ==
    /\ action = "idle"
    /\ lifecycle = ready
    /\ Len(messages) >= 2
    /\ messages[1].role = "user"
    /\ StartsWithY(messages[1].args[1])
    /\ messages[2].text = AllSetText
    /\ tasks # <<>>

----------------------------------------------------------------------------
(* C12 *)

\* The slot spells this list: an array with one object per task, in the
\* order of the list, each object holding the fields of its task and nothing
\* else.
Spells(slot, list) ==
    /\ slot.type = "array"
    /\ Len(slot.items) = Len(list)
    /\ \A k \in 1..Len(list) :
          LET members == slot.items[k]
          IN  /\ {members[i][1] : i \in 1..Len(members)} = DOMAIN list[k]
              /\ Len(members) = Cardinality(DOMAIN list[k])
              /\ \A i \in 1..Len(members) :
                    LET key == members[i][1]
                        token == members[i][2]
                    IN  IF key = "id"
                        THEN token.type = "string" /\ token.chars = <<list[k][key]>>
                        ELSE IF list[k][key] = null
                        THEN token.type = "null"
                        ELSE token.type = "string" /\ token.chars = list[k][key]

\* C12: once start-up or a turn and its persist effect have completed, the
\* persisted copy equals the Task Store: the same tasks, in the same order,
\* with the same fields.
C12_PersistedCopyEqualsStore == lifecycle = ready => Spells(storage, tasks)

\* An update was saved on a store of two tasks, and the slot was rewritten.
C12_Witness ==
    /\ lifecycle = ready
    /\ Len(tasks) = 2
    /\ Len(messages) >= 2
    /\ messages[2].text = "Updated! Anything else?"
    /\ \E k \in 1..2 : tasks[k]["reminder"] = null
    /\ \E k \in 1..2 : tasks[k]["reminder"] # null

----------------------------------------------------------------------------
(* C13 *)

\* The Task Store of the session: the list on screen, or during start-up the
\* stored list that the load effect has queued for the next render.
SessionStore == IF lifecycle.phase = "loading" THEN lifecycle.queued ELSE tasks

\* The page is reloaded after its first effects have run.
Reloaded == lifecycle # rendered /\ lifecycle' = rendered

\* The start-up that follows a reload reads back the list the slot spells.
ReadsBackTheSlot ==
    /\ (lifecycle = rendered /\ lifecycle' # rendered) =>
           \/ /\ lifecycle'.phase = "loading"
              /\ Spells(storage, lifecycle'.queued)
           \/ /\ lifecycle' = ready
              /\ tasks' = <<>>
              /\ storage.type # "array"
    /\ lifecycle.phase = "loading" =>
           \/ lifecycle' = ready /\ tasks' = lifecycle.queued
           \/ lifecycle' = rendered

C13_RoundTripStep ==
    /\ Reloaded => Spells(storage, SessionStore)
    /\ ReadsBackTheSlot

\* C13: wherever the page is reloaded, start-up included, the slot spells the
\* Task Store of the session at that moment, and the start-up that follows
\* reads back exactly what the slot spells; so the Task Store after the
\* restart equals the one before it.
C13_RoundTripAcrossRestart == [][C13_RoundTripStep]_vars

----------------------------------------------------------------------------
(* C14 *)

\* The members spell a well-formed Task: the five fields, each once, an id,
\* a title and a due text, a priority of the enumeration, a reminder or null.
SpellsTask(members) ==
    /\ Len(members) = 5
    /\ {members[i][1] : i \in 1..Len(members)} =
           {"id", "title", "due", "priority", "reminder"}
    /\ \A i \in 1..Len(members) :
          LET key == members[i][1]
              token == members[i][2]
          IN  /\ key # "reminder" => token.type = "string"
              /\ key = "priority" => token.chars \in {High, Medium, Low}

\* The slot holds malformed state: nothing, a text that does not parse, a
\* value that is no sequence, or a sequence with an element that is no Task.
Malformed(slot) ==
    \/ slot.type # "array"
    \/ \E k \in 1..Len(slot.items) : ~SpellsTask(slot.items[k])

\* The first effects of the page run.
StartsUp == lifecycle = rendered /\ lifecycle' # rendered

C14_StartupStep ==
    (StartsUp /\ Malformed(storage)) =>
        /\ lifecycle' = ready
        /\ tasks' = <<>>
        /\ messages' = initialMessages

\* C14: when the page starts over a malformed slot, whatever the slot holds
\* is discarded: nothing is queued for loading, the session starts with an
\* empty Task Store, and the conversation log shows no error.
C14_MalformedSlotIsDiscarded == [][C14_StartupStep]_vars

----------------------------------------------------------------------------
(* C15 *)

\* No id is used by two tasks of the list.
DistinctIds(list) ==
    \A k, l \in 1..Len(list) : list[k]["id"] = list[l]["id"] => k = l

\* C15: in every reachable state the tasks of the Task Store have pairwise
\* distinct ids and a priority that is High, Medium or Low.
C15_StoreIsWellFormed ==
    /\ DistinctIds(tasks)
    /\ \A k \in 1..Len(tasks) : tasks[k]["priority"] \in {High, Medium, Low}

----------------------------------------------------------------------------
(* C16 *)

\* The Idle input routes to View, Update or Delete: it names one of them and
\* does not name Add.
RoutesPastAdd(s) ==
    ~MentionsAdd(s) /\ (MentionsUpdate(s) \/ MentionsDelete(s) \/ MentionsView(s))

\* The texts that render a listing of the tasks.
ListingTexts ==
    { "Which task do you want to update?\n%list",
      "Got it. Which task should I delete?\n%list",
      "Here is what is on your list:\n%list" }

C16_Step ==
    (action = "idle" /\ tasks = <<>> /\ RoutesPastAdd(Sent)) =>
        /\ Len(messages') = 2
        /\ messages'[2].role = "assistant"
        /\ messages'[2].text \notin ListingTexts
        /\ messages'[2].args = <<>>
        /\ selectedTaskId' = NoId
        /\ tasks' = <<>>
        /\ action' = "idle"
        /\ flowStep' = 0
        /\ TopLevelButtons'

\* C16: with an empty Task Store, an Idle input that routes to View, Update
\* or Delete is answered within the turn: exactly one assistant message, no
\* listing of tasks, no selection, the Task Store still empty, and the engine
\* in Idle at step 0 with the four top-level buttons.
C16_EmptyStoreEndsInOneTurn == [][UserTurn => C16_Step]_vars

\* The store is empty and the user asked to see the list.
C16_Witness ==
    /\ tasks = <<>>
    /\ action = "idle"
    /\ lifecycle = ready
    /\ Len(messages) = 2
    /\ messages[1].role = "user"
    /\ MentionsView(messages[1].args[1])
    /\ messages[2].text = "You do not have any tasks yet. Ready to add one?"

----------------------------------------------------------------------------
(* C17 *)

\* The turn takes the Add flow into step 6, from step 4 or from step 5.
EntersAddStep6 ==
    /\ action = "add" /\ flowStep \in {4, 5}
    /\ action' = "add" /\ flowStep' = 6

\* The values interpolated into the assistant messages of the turn.
ShownValues ==
    UNION { {messages'[m].args[i] : i \in 1..Len(messages'[m].args)} :
              m \in 2..Len(messages') }

\* The reminder as a summary prints it.
ShownReminder(draft) ==
    IF "reminder" \in DOMAIN draft /\ draft["reminder"] # null
    THEN draft["reminder"] ELSE None

\* The assistant messages of the turn show the draft as it is after the turn.
ShowsDraftSummary ==
    /\ {"title", "due", "priority", "reminder"} \subseteq DOMAIN pendingTask'
    /\ pendingTask'["title"] \in ShownValues
    /\ pendingTask'["due"] \in ShownValues
    /\ pendingTask'["priority"] \in ShownValues
    /\ ShownReminder(pendingTask') \in ShownValues

C17_Step ==
    EntersAddStep6 =>
        /\ ShowsDraftSummary
        /\ Len(buttons') = 2
        /\ buttons'[1].value = wYes /\ buttons'[2].value = wNo

\* C17: on both transitions of the Add flow into step 6 (step 4 answered with
\* 'n', step 5 with the reminder text) the assistant message of the turn
\* shows a summary of the draft (title, due, priority, reminder), and the
\* save yes/no buttons are offered.
C17_SummaryShownBeforeSave == [][UserTurn => C17_Step]_vars

----------------------------------------------------------------------------
(* C18 *)

\* The input is this word, whatever the case of its letters.
SaysWord(s, word) ==
    Len(s) = Len(word) /\ \A k \in 1..Len(word) : ToLowerChar(s[k]) = word[k]

\* The Update flow waits for the new value of this field.
AtValueStep(field) == action = "update" /\ flowStep = 3 /\ pendingField = field

\* The turn moves the Update flow to this step.
UpdateGoesTo(step) == action' = "update" /\ flowStep' = step

C18_Step ==
    /\ (UpdateGoesTo(4) /\ ~(action = "update" /\ flowStep = 4)) =>
          /\ AtValueStep("reminder")
          /\ SaysWord(Sent, kwUpdate)
    /\ (AtValueStep("reminder") /\ SaysWord(Sent, kwUpdate)) =>
          /\ UpdateGoesTo(4)
          /\ pendingTask' = pendingTask
          /\ tasks' = tasks
    /\ (AtValueStep("reminder") /\ SaysWord(Sent, kwRemove)) =>
          /\ UpdateGoesTo(5)
          /\ pendingTask' = [reminder |-> null]
    /\ (AtValueStep("reminder") /\ ~SaysWord(Sent, kwUpdate)
                                /\ ~SaysWord(Sent, kwRemove)) =>
          /\ UpdateGoesTo(5)
          /\ pendingTask' = [reminder |-> Sent]
    /\ (AtValueStep("title") \/ AtValueStep("due")) => UpdateGoesTo(5)
    /\ AtValueStep("priority") =>
          IF UnrecognizedPriority(Sent) THEN UpdateGoesTo(3) ELSE UpdateGoesTo(5)
    /\ (action = "update" /\ flowStep = 4) =>
          /\ UpdateGoesTo(5)
          /\ pendingTask' = [reminder |-> Sent]

\* C18: the Update flow enters step 4 only from step 3 with the pending
\* field reminder and the input "update" in any case, and that turn builds
\* no delta; at step 3 with the field reminder, "remove" sets the delta
\* reminder to absent and any other text sets it to that text, both going to
\* step 5; the title, due and priority paths go from step 3 to step 5 and
\* never to step 4; step 4 takes the text as the reminder and goes to step 5.
C18_Step4OnlyForReminderUpdate == [][UserTurn => C18_Step]_vars

\* The user chose to update the reminder and is asked for the new time.
C18_Witness ==
    /\ action = "update" /\ flowStep = 4
    /\ pendingField = "reminder"
    /\ messages[1].role = "user"
    /\ SaysWord(messages[1].args[1], kwUpdate)
    /\ messages[2].text = "What is the new reminder time?"

----------------------------------------------------------------------------
(* C19 *)

\* The steps that work on the selected task.
NeedsSelection ==
    \/ action = "update" /\ flowStep \in 2..5
    \/ action = "delete" /\ flowStep = 2

\* What the flows say when they abort for want of the selected task.
AbortTexts ==
    { "Let's start over.",
      "I could not find that task. Let's try again.",
      "Task not found, sorry.",
      "Looks like that task vanished.",
      "Task already gone." }

\* C19: whenever the Update flow is at step 2, 3, 4 or 5 or the Delete flow
\* at step 2, a task is selected and it is a task of the Task Store; and no
\* turn ever took one of the abort branches for a missing selection.
C19_SelectionIsInStore ==
    /\ NeedsSelection =>
          /\ selectedTaskId # NoId
          /\ \E k \in 1..Len(tasks) : tasks[k]["id"] = selectedTaskId
    /\ \A m \in 1..Len(messages) : messages[m].text \notin AbortTexts

\* The second of two tasks is selected and the Update flow previews a change.
C19_Witness ==
    /\ action = "update" /\ flowStep = 5
    /\ Len(tasks) = 2
    /\ selectedTaskId = tasks[2]["id"]
    /\ selectedTaskId # tasks[1]["id"]

----------------------------------------------------------------------------
(* C20 *)

\* The turn sends the value of one of the buttons offered.
SendsButtonValue == \E b \in 1..Len(buttons) : buttons[b].value = Sent

\* What the engine says when it does not accept an input.
RepromptTexts ==
    { "Please choose between High, Medium, or Low.",
      "Please say yes or no for the reminder.",
      "Please pick a valid task number.",
      "Please choose title, due, priority, or reminder.",
      "Priority should be High, Medium, or Low.",
      "Please choose a valid task number.",
      "I can add, update, delete, or show tasks. Which one do you need?" }

\* The turn is a validation re-prompt: the engine says so, or a flow stays at
\* the step it was at.
IsReprompt ==
    \/ \E m \in 2..Len(messages') : messages'[m].text \in RepromptTexts
    \/ action # "idle" /\ action' = action /\ flowStep' = flowStep

\* The flow an Idle turn started, told by the first thing the engine says.
StartedFlow ==
    CASE Reply = "Great! What is the task?" /\ action' = "add" /\ flowStep' = 1
           -> "add"
      [] \/ Reply = "You have no tasks yet. Let's add one." /\ action' = "idle"
         \/ /\ Reply = "Which task do you want to update?\n%list"
            /\ action' = "update" /\ flowStep' = 1
           -> "update"
      [] \/ /\ Reply = "No tasks to delete right now. Want to add one instead?"
            /\ action' = "idle"
         \/ /\ Reply = "Got it. Which task should I delete?\n%list"
            /\ action' = "delete" /\ flowStep' = 1
           -> "delete"
      [] \/ Reply = "You do not have any tasks yet. Ready to add one?"
         \/ Reply = "Here is what is on your list:\n%list"
           -> "view"
      [] OTHER -> "none"

C20_Step ==
    SendsButtonValue =>
        /\ ~IsReprompt
        /\ action = "idle" =>
              \A b \in 1..Len(buttons) :
                  buttons[b].value = Sent =>
                      StartedFlow =
                          CASE buttons[b].label = "Add Task" -> "add"
                            [] buttons[b].label = "Update Task" -> "update"
                            [] buttons[b].label = "Delete Task" -> "delete"
                            [] buttons[b].label = "View Tasks" -> "view"
                            [] OTHER -> "unlabelled"

\* C20: the value of every button offered is a valid input for the step the
\* engine is at: a turn that sends it is never answered with a validation
\* re-prompt, and in Idle the buttons Add Task, Update Task, Delete Task and
\* View Tasks start the Add, Update, Delete and View flow.
C20_ButtonsAreValidInputs == [][UserTurn => C20_Step]_vars

\* The Reminder button was pressed at step 2 of the Update flow, and the
\* engine offers the two reminder buttons.
C20_Witness ==
    /\ action = "update" /\ flowStep = 3
    /\ pendingField = "reminder"
    /\ messages[1].role = "user"
    /\ messages[1].args[1] = wReminder
    /\ ButtonValues = <<kwUpdate, kwRemove>>

----------------------------------------------------------------------------
(* C21 *)

\* The last step of a flow.
FinalStep(flow) ==
    CASE flow = "add" -> 6
      [] flow = "update" -> 5
      [] flow = "delete" -> 2
      [] OTHER -> 0

\* The intent is Idle or an active flow, never View, and the step counter is
\* within the range of the flow.
StepInRange ==
    /\ action \in {"idle", "add", "update", "delete"}
    /\ IF action = "idle" THEN flowStep = 0 ELSE flowStep \in 1..FinalStep(action)

\* The accepted inputs the active flow can still take before it is back in
\* Idle: none in Idle, all of the flow at its step 1.
InputsLeft == IF action = "idle" THEN 0 ELSE FinalStep(action) - flowStep + 1

\* The engine answers the turn with a validation re-prompt.
SaysReprompt == \E m \in 2..Len(messages') : messages'[m].text \in RepromptTexts

C21_Step ==
    /\ StepInRange
    /\ StepInRange'
    /\ (UserTurn /\ action = "idle" /\ action' # "idle") =>
          /\ flowStep' = 1
          /\ InputsLeft' = FinalStep(action')
    /\ (UserTurn /\ action # "idle") =>
          /\ action' \in {action, "idle"}
          /\ action' = action => flowStep' >= flowStep
          /\ (action' = action /\ flowStep' = flowStep) <=> SaysReprompt
          /\ ~SaysReprompt => InputsLeft' < InputsLeft
          /\ InputsLeft' >= 0

\* C21: between turns the intent is never View and the step counter is in
\* the range of the active flow (Add 1..6, Update 1..5, Delete 1..2, Idle 0);
\* within a flow the step counter never decreases, stays equal exactly on a
\* validation re-prompt and grows on every accepted input, which leaves
\* strictly fewer inputs to take; a flow starts at step 1 with 6 (Add), 5
\* (Update) or 2 (Delete) inputs left and is back in Idle when none is left.
C21_FlowsAdvanceAndEnd == [][C21_Step]_vars

\* The Add flow took all six of its inputs (title, due, priority, yes,
\* reminder, yes) and is back in Idle with the task saved.
C21_Witness ==
    /\ action = "idle" /\ flowStep = 0
    /\ lifecycle = ready
    /\ Len(messages) >= 2
    /\ messages[2].text = AllSetText
    /\ tasks # <<>>
    /\ tasks[Len(tasks)]["reminder"] # null

====
